---- MODULE Spec2Model ----
(***************************************************************************)
(* chops::wait_queue (include/queue/wait_queue.hpp): an MPMC queue built   *)
(* from a std::mutex, a std::condition_variable_any, a std::stop_token and *)
(* a container.  Every thread of Threads may call any method at any time;  *)
(* a method is a sequence of steps (pc), one step per statement that other *)
(* threads can observe: the unsynchronised read of the stop token, the     *)
(* acquisition of m_mut, the statements run while m_mut is held, and the   *)
(* release of m_mut at the end of the scope.                               *)
(*                                                                         *)
(* Values pushed are distinct tags 1, 2, ... (the queue never inspects a   *)
(* value, and the threaded tests push distinct tags as well), so that the  *)
(* order and the multiplicity of deliveries can be read off the state.     *)
(***************************************************************************)
EXTENDS Integers, Sequences, FiniteSets, TLC

\* ------------------------------------------------------------------ bounds
NumThreads == 3      \* threads that call into the queue
MaxPush == 2         \* push / emplace_push calls made in one behaviour
MaxPushFair == 1     \* the same, in the behaviours checked for progress
RingCap == 2         \* capacity of the ring view in the fixed-capacity behaviours
MaxPushRing == 3     \* push calls made in one fixed-capacity behaviour
NumThreadsSmall == 2  \* threads that call into the queue in the small behaviours
MaxPushOwn == 2

Threads == 1..NumThreads
SmallThreads == { t \in Threads : t <= NumThreadsSmall }
NoThread == 0 - 1    \* m_mut is not owned
\* the writer thread and the reader threads of the threaded test
Writers == {1}
Readers == Threads \ Writers

PushOps == {"push", "push_move", "emplace_push"}
PopOps == {"wait_and_pop", "try_pop"}

\* the constructors
CtorForms == {"default", "token", "container", "token_container", "size", "token_size"}

\* the constructors with a std::stop_token parameter
TakesToken(form) == form \in {"token", "token_container", "token_size"}

\* capacity of a container that grows on demand (std::deque): no ceiling
Growable == 0

VARIABLES
  m_mut,         \* owner of the std::mutex, or NoThread
  m_stop_src,    \* TRUE iff the optional<stop_source> holds a source
  m_stop_tok,    \* TRUE iff the stop state behind the token is "requested"
  m_data_cond,   \* threads blocked inside the condition variable
  m_data_queue,  \* the container, front first
  capacity,      \* the capacity of a fixed-capacity container, or Growable
  ctor,          \* the constructor that built the queue
  tok_state,     \* the stop state m_stop_tok refers to: "owned", "external",
                 \* or "indeterminate" (obtained from an empty m_stop_src)
  pc,            \* per thread: the statement it executes next
  op,            \* per thread: the method it is in (or returned from last)
  arg,           \* per thread: the value a push carries
  ret,           \* per thread: the std::optional<T> its pop is returning
  ok,            \* per thread: the bool its push, request_stop, empty or
                 \* stop_requested is returning
  seen,          \* per thread: the elements its apply has passed to the visitor
  cnt,           \* per thread: the size_type its size is returning
  ext_pc,        \* the owner of an external stop_source
  \* history (never read by the actions that model the code)
  nextTag,       \* the tag the next push call will carry
  pushed,        \* the values the container was built with, then the values
                 \* appended, in the order of the appends
  popped,        \* the values removed, in the order of the removals
  stopReturned,  \* some request_stop() has returned true
  calledAfter,   \* per thread: the stop phase when its current call started
  headAtCall,    \* per thread: the front of the queue when wait_and_pop was called
  parkedAtStop   \* per thread: it was parked on an empty queue when stop was requested

vars == << m_mut, m_stop_src, m_stop_tok, m_data_cond, m_data_queue, capacity, ctor,
           tok_state, pc, op, arg, seen, cnt, ret, ok,
           ext_pc, nextTag, pushed, popped, stopReturned, calledAfter, headAtCall,
           parkedAtStop >>

\* what construction fixes for the lifetime of the queue
asBuilt == << capacity, ctor, tok_state >>

queueVars == << m_mut, m_stop_src, m_stop_tok, m_data_cond, m_data_queue, asBuilt >>
histVars == << nextTag, pushed, popped, stopReturned, calledAfter, headAtCall, parkedAtStop >>

\* ------------------------------------------------- std::optional<T> results
Absent == << >>
Present(v) == << v >>

\* ------------------------------------------------------ container operations
\* std::deque: push_back / emplace_back append at the tail
\* (push_front: the same insertion made at the wrong end)
push_front(q, v) == << v >> \o q

push_back(q, v) == Append(q, v)

\* nonstd::ring_span: push_back on a full ring overwrites the oldest element
\* (ring_grow: a ring that grows past its capacity)
ring_grow(q, v, cap) == Append(q, v)

\* (ring_reject: a full ring that drops the new element)
ring_reject(q, v, cap) == IF Len(q) = cap THEN q ELSE Append(q, v)

ring_push_back(q, v, cap) == IF Len(q) = cap THEN Append(Tail(q), v) ELSE Append(q, v)

\* (emplace_front: the in-place construction made at the wrong end)
emplace_front(q, v) == << v >> \o q

emplace_back(q, v) == Append(q, v)

\* (back: the element at the other end)
back(q) == q[Len(q)]

front(q) == Head(q)

\* (pop_keep: a removal that leaves the head in place)
pop_keep(q) == q

pop_front(q) == Tail(q)

empty(q) == Len(q) = 0

size(q) == Len(q)

\* --------------------------------------------------- stop_token / stop phases
\* (StopNeverSeen: a token that never reports the request)
StopNeverSeen == FALSE

\* m_stop_tok.stop_requested()
stop_requested == m_stop_tok

\* 0: stop not requested; 1: requested; 2: a request_stop() has returned true
StopPhase == IF stopReturned THEN 2 ELSE IF m_stop_tok THEN 1 ELSE 0

\* ------------------------------------------------------- condition variable
\* (NotifyNobody: a notification that reaches no thread)
NotifyNobody(blocked) == { {} }

\* (NotifyEveryone: a notification that releases all the blocked threads)
NotifyEveryone(blocked) == { blocked }

\* notify_one: releases one of the blocked threads, if there is any
NotifyOneChoices(blocked) == IF blocked = {} THEN { {} } ELSE { {w} : w \in blocked }

\* notify_all (the stop callback of the interruptible wait): releases them all
\* (NotifyNone: a stop request whose callback reaches no thread)
NotifyNone(blocked) == {}

NotifyAllChoice(blocked) == blocked

\* the threads of `woken` leave the wait and go on to re-acquire m_mut
Release(woken) == [t \in Threads |-> IF t \in woken THEN "wap_relock" ELSE pc[t]]

\* the thread evaluates the wait: on entry, or again after a wake-up
InWait(t) == pc[t] \in {"wap_wait", "wap_rewait"}

\* (WaitAbsentOnceStopped: a wait that reports "stopped" whatever the queue holds)
WaitAbsentOnceStopped(stopped, q) ==
  IF stopped THEN "absent"
  ELSE IF ~empty(q) THEN "pop"
  ELSE "park"

\* (WaitTrueOnStop: a wait that reports success as soon as stop is requested)
WaitTrueOnStop(stopped, q) ==
  IF stopped \/ ~empty(q) THEN "pop" ELSE "park"

\* (WaitNeverBlocks: a wait that gives up on an empty queue instead of blocking)
WaitNeverBlocks(stopped, q) == IF ~empty(q) THEN "pop" ELSE "absent"

\* condition_variable_any::wait(lk, stop_token, pred): what one evaluation of
\* the wait does with the lock held.
\*   "absent"  the wait returns false (stop requested, predicate false)
\*   "pop"     the wait returns true  (predicate true)
\*   "park"    the thread releases the lock and blocks
WaitOutcome(stopped, q) ==
  IF stopped THEN (IF ~empty(q) THEN "pop" ELSE "absent")
  ELSE IF ~empty(q) THEN "pop"
  ELSE "park"

\* ----------------------------------------------------------------- Init
\* (ConstructedEmpty: a constructor that drops the elements of the container
\* it is given)
ConstructedEmpty(form, binding, reading, cap, elems) ==
  /\ m_mut = NoThread
  /\ m_stop_src = ~TakesToken(form)
  /\ m_stop_tok = reading
  /\ m_data_cond = {}
  /\ m_data_queue = << >>
  /\ capacity = cap
  /\ ctor = form
  /\ tok_state = binding
  /\ pc = [t \in Threads |-> "idle"]
  /\ op = [t \in Threads |-> "none"]
  /\ arg = [t \in Threads |-> 0]
  /\ ret = [t \in Threads |-> Absent]
  /\ ok = [t \in Threads |-> FALSE]
  /\ seen = [t \in Threads |-> << >>]
  /\ cnt = [t \in Threads |-> 0]
  /\ ext_pc = "idle"
  /\ nextTag = 1
  /\ pushed = elems
  /\ popped = << >>
  /\ stopReturned = FALSE
  /\ calledAfter = [t \in Threads |-> 0]
  /\ headAtCall = [t \in Threads |-> 0]
  /\ parkedAtStop = [t \in Threads |-> FALSE]

\* the state after construction by the constructor `form`: m_stop_src holds a
\* source iff the constructor takes no token; `binding` is the stop state
\* m_stop_tok was obtained from and `reading` what it reports; the container
\* has capacity `cap` and holds `elems`
Constructed(form, binding, reading, cap, elems) ==
  /\ m_mut = NoThread
  /\ m_stop_src = ~TakesToken(form)
  /\ m_stop_tok = reading
  /\ m_data_cond = {}
  /\ m_data_queue = elems
  /\ capacity = cap
  /\ ctor = form
  /\ tok_state = binding
  /\ pc = [t \in Threads |-> "idle"]
  /\ op = [t \in Threads |-> "none"]
  /\ arg = [t \in Threads |-> 0]
  /\ ret = [t \in Threads |-> Absent]
  /\ ok = [t \in Threads |-> FALSE]
  /\ seen = [t \in Threads |-> << >>]
  /\ cnt = [t \in Threads |-> 0]
  /\ ext_pc = "idle"
  /\ nextTag = 1
  /\ pushed = elems
  /\ popped = << >>
  /\ stopReturned = FALSE
  /\ calledAfter = [t \in Threads |-> 0]
  /\ headAtCall = [t \in Threads |-> 0]
  /\ parkedAtStop = [t \in Threads |-> FALSE]

\* wait_queue()
Init == Constructed("default", "owned", FALSE, Growable, << >>)

\* wait_queue(std::stop_token)
InitExt == Constructed("token", "external", FALSE, Growable, << >>)

\* wait_queue(Container&&) with an empty nonstd::ring_span over RingCap slots
InitRing == Constructed("container", "owned", FALSE, RingCap, << >>)

\* Container(sz) of a std::deque: sz default-inserted elements
SizedContainers == { [i \in 1..sz |-> 0] : sz \in {0, 1} }

\* containers filled before they are moved into the queue (values that no
\* push carries)
PrebuiltContainers == { << >>, << MaxPushRing + 1, MaxPushRing + 2 >> }

\* any of the six constructors: a default-constructed container, one with no
\* or one default-inserted element, or a pre-built one.
\* wait_queue(std::stop_token, size_type) initialises m_stop_tok from
\* *m_stop_src while m_stop_src is empty: the token it gets is not the one
\* supplied, and what it reports is not determined.
InitCtor ==
  \E form \in CtorForms, elems \in SizedContainers \cup PrebuiltContainers,
     reading \in BOOLEAN :
    /\ form \in {"default", "token"} => elems = << >>
    /\ form \in {"size", "token_size"} => elems \in SizedContainers
    /\ form \in {"container", "token_container"} => elems \in PrebuiltContainers
    /\ form # "token_size" => reading = FALSE
    /\ Constructed(form,
                   IF form = "token_size" THEN "indeterminate"
                   ELSE IF TakesToken(form) THEN "external" ELSE "owned",
                   reading, Growable, elems)

\* ---------------------------------------------------------- return of a call
\* the caller takes the result; the thread is in no method again
Returned(t) ==
  /\ op' = [op EXCEPT ![t] = "none"]
  /\ arg' = [arg EXCEPT ![t] = 0]
  /\ ret' = [ret EXCEPT ![t] = Absent]
  /\ ok' = [ok EXCEPT ![t] = FALSE]
  /\ seen' = [seen EXCEPT ![t] = << >>]
  /\ cnt' = [cnt EXCEPT ![t] = 0]
  /\ calledAfter' = [calledAfter EXCEPT ![t] = 0]
  /\ headAtCall' = [headAtCall EXCEPT ![t] = 0]
  /\ parkedAtStop' = [parkedAtStop EXCEPT ![t] = FALSE]

\* a return from a path that holds no lock (the early returns)
Return(t) ==
  /\ pc[t] = "return"
  /\ pc' = [pc EXCEPT ![t] = "idle"]
  /\ Returned(t)
  /\ stopReturned' = (stopReturned \/ (op[t] = "request_stop" /\ ok[t]))
  /\ UNCHANGED << queueVars, ext_pc, nextTag, pushed, popped >>

\* (UnlockHeld: a return that leaves m_mut locked)
UnlockHeld(t, at) ==
  /\ pc[t] = at
  /\ pc' = [pc EXCEPT ![t] = "idle"]
  /\ Returned(t)
  /\ UNCHANGED << m_mut, m_stop_src, asBuilt, m_stop_tok, m_data_cond, m_data_queue, ext_pc,
                  nextTag, pushed, popped, stopReturned >>

\* a return from a path that holds m_mut: the guard's destructor releases it
Unlock(t, at) ==
  /\ pc[t] = at
  /\ m_mut' = NoThread
  /\ pc' = [pc EXCEPT ![t] = "idle"]
  /\ Returned(t)
  /\ UNCHANGED << m_stop_src, asBuilt, m_stop_tok, m_data_cond, m_data_queue, ext_pc,
                  nextTag, pushed, popped, stopReturned >>

\* ------------------------------------------------------------ start of a call
\* a thread that is in no method enters `method`
Call(t, method, first, a) ==
  /\ pc[t] = "idle"
  /\ pc' = [pc EXCEPT ![t] = first]
  /\ op' = [op EXCEPT ![t] = method]
  /\ arg' = [arg EXCEPT ![t] = a]
  /\ calledAfter' = [calledAfter EXCEPT ![t] = StopPhase]
  /\ headAtCall' = [headAtCall EXCEPT ![t] =
                      IF method = "wait_and_pop" /\ ~empty(m_data_queue)
                      THEN front(m_data_queue) ELSE 0]
  /\ parkedAtStop' = [parkedAtStop EXCEPT ![t] = FALSE]
  /\ UNCHANGED << queueVars, seen, cnt, ret, ok, ext_pc, pushed, popped, stopReturned >>

CallPush(t) ==
  /\ nextTag <= MaxPush
  /\ \E method \in PushOps : Call(t, method, "push_check", nextTag)
  /\ nextTag' = nextTag + 1

\* the same call in the behaviours checked for progress: push(const T&) only
CallPushFair(t) ==
  /\ nextTag <= MaxPushFair
  /\ Call(t, "push", "push_check", nextTag)
  /\ nextTag' = nextTag + 1

\* the same call on the queue over a ring view: push(const T&) only
CallPushRing(t) ==
  /\ nextTag <= MaxPushRing
  /\ Call(t, "push", "push_check", nextTag)
  /\ nextTag' = nextTag + 1

\* the k-th value pushed by producer t, and the producer of a value
OwnValue(t, k) == (t - 1) * MaxPushOwn + k
Producer(v) == ((v - 1) \div MaxPushOwn) + 1

\* vv_push_func: a producer pushes its values one call after the other; its
\* next value is the one after those it has appended
CallPushOwn(t) ==
  /\ LET k == Cardinality({ i \in 1..Len(pushed) : Producer(pushed[i]) = t }) + 1 IN
       /\ k <= MaxPushOwn
       /\ Call(t, "push", "push_check", OwnValue(t, k))
  /\ UNCHANGED nextTag

CallWaitAndPop(t) ==
  /\ Call(t, "wait_and_pop", "wap_lock", 0)
  /\ UNCHANGED nextTag

CallTryPop(t) ==
  /\ Call(t, "try_pop", "tp_check", 0)
  /\ UNCHANGED nextTag

CallRequestStop(t) ==
  /\ Call(t, "request_stop", "rs_check", 0)
  /\ UNCHANGED nextTag

CallApply(t) ==
  /\ Call(t, "apply", "ap_lock", 0)
  /\ UNCHANGED nextTag

CallStopRequested(t) ==
  /\ Call(t, "stop_requested", "sr_read", 0)
  /\ UNCHANGED nextTag

CallEmpty(t) ==
  /\ Call(t, "empty", "em_lock", 0)
  /\ UNCHANGED nextTag

CallSize(t) ==
  /\ Call(t, "size", "sz_lock", 0)
  /\ UNCHANGED nextTag

\* ------------------------------------------------- push / push(T&&) / emplace_push
\* (PushUnchecked: a push that goes for the lock without looking at the token)
PushUnchecked(t) ==
  /\ pc[t] = "push_check"
  /\ pc' = [pc EXCEPT ![t] = "push_lock"]
  /\ UNCHANGED << queueVars, op, arg, seen, cnt, ret, ok, ext_pc, histVars >>

\* (PushCheckWaking: a refused push that notifies the blocked threads)
PushCheckWaking(t) ==
  /\ pc[t] = "push_check"
  /\ IF stop_requested
     THEN /\ pc' = [Release(m_data_cond) EXCEPT ![t] = "return"]
          /\ m_data_cond' = {}
          /\ ok' = [ok EXCEPT ![t] = FALSE]
     ELSE /\ pc' = [pc EXCEPT ![t] = "push_lock"]
          /\ UNCHANGED << ok, m_data_cond >>
  /\ UNCHANGED << m_mut, m_stop_src, asBuilt, m_stop_tok, m_data_queue, op, arg, seen, cnt, ret,
                  ext_pc, histVars >>

\* if (m_stop_tok.stop_requested()) return false;
PushCheck(t) ==
  /\ pc[t] = "push_check"
  /\ IF stop_requested
     THEN /\ pc' = [pc EXCEPT ![t] = "return"]
          /\ ok' = [ok EXCEPT ![t] = FALSE]
     ELSE /\ pc' = [pc EXCEPT ![t] = "push_lock"]
          /\ UNCHANGED ok
  /\ UNCHANGED << queueVars, op, arg, seen, cnt, ret, ext_pc, histVars >>

\* (PushNoLock: a push that appends without taking m_mut)
PushNoLock(t) ==
  /\ pc[t] = "push_lock"
  /\ pc' = [pc EXCEPT ![t] = "push_back"]
  /\ UNCHANGED << queueVars, op, arg, seen, cnt, ret, ok, ext_pc, histVars >>

\* lock_guard lk{m_mut};
PushLock(t) ==
  /\ pc[t] = "push_lock"
  /\ m_mut = NoThread
  /\ m_mut' = t
  /\ pc' = [pc EXCEPT ![t] = "push_back"]
  /\ UNCHANGED << m_stop_src, asBuilt, m_stop_tok, m_data_cond, m_data_queue, op, arg, seen, cnt, ret, ok, ext_pc,
                  histVars >>

\* m_data_queue.push_back(val); / emplace_back(args...)
PushBack(t) ==
  /\ pc[t] = "push_back"
  /\ m_data_queue' = IF capacity # Growable
                     THEN ring_push_back(m_data_queue, arg[t], capacity)
                     ELSE IF op[t] = "emplace_push"
                     THEN emplace_back(m_data_queue, arg[t])
                     ELSE push_back(m_data_queue, arg[t])
  /\ pushed' = Append(pushed, arg[t])
  /\ pc' = [pc EXCEPT ![t] = "push_notify"]
  /\ UNCHANGED << m_mut, m_stop_src, asBuilt, m_stop_tok, m_data_cond, op, arg, seen, cnt, ret, ok, ext_pc,
                  nextTag, popped, stopReturned, calledAfter, headAtCall, parkedAtStop >>

\* (PushNotifyFirstOnly: a push that notifies only when the queue was empty)
PushNotifyFirstOnly(t) ==
  /\ pc[t] = "push_notify"
  /\ \E woken \in (IF Len(m_data_queue) = 1 THEN NotifyOneChoices(m_data_cond) ELSE { {} }) :
       /\ m_data_cond' = m_data_cond \ woken
       /\ pc' = [Release(woken) EXCEPT ![t] = "push_unlock"]
  /\ ok' = [ok EXCEPT ![t] = TRUE]
  /\ UNCHANGED << m_mut, m_stop_src, asBuilt, m_stop_tok, m_data_queue, op, arg, seen, cnt, ret, ext_pc,
                  histVars >>

\* (PushNoNotify: a push that notifies nobody)
PushNoNotify(t) ==
  /\ pc[t] = "push_notify"
  /\ pc' = [pc EXCEPT ![t] = "push_unlock"]
  /\ ok' = [ok EXCEPT ![t] = TRUE]
  /\ UNCHANGED << queueVars, op, arg, seen, cnt, ret, ext_pc, histVars >>

\* m_data_cond.notify_one();
PushNotify(t) ==
  /\ pc[t] = "push_notify"
  /\ \E woken \in NotifyOneChoices(m_data_cond) :
       /\ m_data_cond' = m_data_cond \ woken
       /\ pc' = [Release(woken) EXCEPT ![t] = "push_unlock"]
  /\ ok' = [ok EXCEPT ![t] = TRUE]
  /\ UNCHANGED << m_mut, m_stop_src, asBuilt, m_stop_tok, m_data_queue, op, arg, seen, cnt, ret, ext_pc,
                  histVars >>

\* return true;  (the lock_guard releases m_mut)
PushUnlock(t) == Unlock(t, "push_unlock")

\* ------------------------------------------------------------- wait_and_pop
\* std::unique_lock<std::mutex> lk{m_mut};
WapLock(t) ==
  /\ pc[t] = "wap_lock"
  /\ m_mut = NoThread
  /\ m_mut' = t
  /\ pc' = [pc EXCEPT ![t] = "wap_wait"]
  /\ UNCHANGED << m_stop_src, asBuilt, m_stop_tok, m_data_cond, m_data_queue, op, arg, seen, cnt, ret, ok, ext_pc,
                  histVars >>

\* (WapWaitHolding: a wait that blocks without releasing m_mut)
WapWaitHolding(t) ==
  /\ InWait(t)
  /\ LET outcome == WaitOutcome(stop_requested, m_data_queue) IN
       \/ /\ outcome = "absent"
          /\ ret' = [ret EXCEPT ![t] = Absent]
          /\ pc' = [pc EXCEPT ![t] = "wap_unlock"]
          /\ UNCHANGED m_data_cond
       \/ /\ outcome = "pop"
          /\ pc' = [pc EXCEPT ![t] = "wap_pop"]
          /\ UNCHANGED << m_data_cond, ret >>
       \/ /\ outcome = "park"
          /\ m_data_cond' = m_data_cond \cup {t}
          /\ pc' = [pc EXCEPT ![t] = "wap_parked"]
          /\ UNCHANGED ret
  /\ UNCHANGED << m_mut, m_stop_src, asBuilt, m_stop_tok, m_data_queue, op, arg, seen, cnt, ok, ext_pc, histVars >>

\* m_data_cond.wait(lk, m_stop_tok, [this] { return !m_data_queue.empty(); })
\* evaluated with m_mut held; blocking releases m_mut in the same step
WapWait(t) ==
  /\ InWait(t)
  /\ LET outcome == WaitOutcome(stop_requested, m_data_queue) IN
       \/ /\ outcome = "absent"
          /\ ret' = [ret EXCEPT ![t] = Absent]
          /\ pc' = [pc EXCEPT ![t] = "wap_unlock"]
          /\ UNCHANGED << m_mut, m_data_cond >>
       \/ /\ outcome = "pop"
          /\ pc' = [pc EXCEPT ![t] = "wap_pop"]
          /\ UNCHANGED << m_mut, m_data_cond, ret >>
       \/ /\ outcome = "park"
          /\ m_mut' = NoThread
          /\ m_data_cond' = m_data_cond \cup {t}
          /\ pc' = [pc EXCEPT ![t] = "wap_parked"]
          /\ UNCHANGED ret
  /\ UNCHANGED << m_stop_src, asBuilt, m_stop_tok, m_data_queue, op, arg, seen, cnt, ok, ext_pc, histVars >>

\* a released thread re-acquires m_mut inside wait and evaluates the wait again
WapRelock(t) ==
  /\ pc[t] = "wap_relock"
  /\ m_mut = NoThread
  /\ m_mut' = t
  /\ pc' = [pc EXCEPT ![t] = "wap_rewait"]
  /\ UNCHANGED << m_stop_src, asBuilt, m_stop_tok, m_data_cond, m_data_queue, op, arg, seen, cnt, ret, ok, ext_pc,
                  histVars >>

\* (WapPopAll: a removal that empties the queue)
WapPopAll(t) ==
  /\ pc[t] = "wap_pop"
  /\ IF empty(m_data_queue)
     THEN /\ pc' = [pc EXCEPT ![t] = "assert_failed"]
          /\ UNCHANGED << m_data_queue, ret, popped >>
     ELSE /\ ret' = [ret EXCEPT ![t] = Present(front(m_data_queue))]
          /\ m_data_queue' = << >>
          /\ popped' = Append(popped, front(m_data_queue))
          /\ pc' = [pc EXCEPT ![t] = "wap_unlock"]
  /\ UNCHANGED << m_mut, m_stop_src, asBuilt, m_stop_tok, m_data_cond, op, arg, seen, cnt, ok, ext_pc,
                  nextTag, pushed, stopReturned, calledAfter, headAtCall, parkedAtStop >>

\* assert(!m_data_queue.empty()); val = front(); pop_front();
WapPop(t) ==
  /\ pc[t] = "wap_pop"
  /\ IF empty(m_data_queue)
     THEN /\ pc' = [pc EXCEPT ![t] = "assert_failed"]
          /\ UNCHANGED << m_data_queue, ret, popped >>
     ELSE /\ ret' = [ret EXCEPT ![t] = Present(front(m_data_queue))]
          /\ m_data_queue' = pop_front(m_data_queue)
          /\ popped' = Append(popped, front(m_data_queue))
          /\ pc' = [pc EXCEPT ![t] = "wap_unlock"]
  /\ UNCHANGED << m_mut, m_stop_src, asBuilt, m_stop_tok, m_data_cond, op, arg, seen, cnt, ok, ext_pc,
                  nextTag, pushed, stopReturned, calledAfter, headAtCall, parkedAtStop >>

\* return: the unique_lock releases m_mut
WapUnlock(t) == Unlock(t, "wap_unlock")

\* read_func: the result of wait_and_pop comes back to the reader's loop, which
\* ends on an absent result and otherwise goes round again
ReadFuncReturn(t) ==
  /\ pc[t] = "wap_unlock"
  /\ m_mut' = NoThread
  /\ pc' = [pc EXCEPT ![t] = IF ret[t] = Absent THEN "exited" ELSE "idle"]
  /\ Returned(t)
  /\ UNCHANGED << m_stop_src, asBuilt, m_stop_tok, m_data_cond, m_data_queue, ext_pc,
                  nextTag, pushed, popped, stopReturned >>

\* the condition variable may release a blocked thread without a notification
SpuriousWake(t) ==
  /\ t \in m_data_cond
  /\ m_data_cond' = m_data_cond \ {t}
  /\ pc' = Release({t})
  /\ UNCHANGED << m_mut, m_stop_src, asBuilt, m_stop_tok, m_data_queue, op, arg, seen, cnt, ret, ok, ext_pc,
                  histVars >>

\* ------------------------------------------------------------------ try_pop
\* (TpUnchecked: a try_pop that goes for the lock without looking at the token)
TpUnchecked(t) ==
  /\ pc[t] = "tp_check"
  /\ pc' = [pc EXCEPT ![t] = "tp_lock"]
  /\ UNCHANGED << queueVars, op, arg, seen, cnt, ret, ok, ext_pc, histVars >>

\* if (m_stop_tok.stop_requested()) return std::optional<T> {};
TpCheck(t) ==
  /\ pc[t] = "tp_check"
  /\ IF stop_requested
     THEN /\ pc' = [pc EXCEPT ![t] = "return"]
          /\ ret' = [ret EXCEPT ![t] = Absent]
     ELSE /\ pc' = [pc EXCEPT ![t] = "tp_lock"]
          /\ UNCHANGED ret
  /\ UNCHANGED << queueVars, op, arg, seen, cnt, ok, ext_pc, histVars >>

\* (TpLockBarging: a try_pop that takes m_mut whoever owns it)
TpLockBarging(t) ==
  /\ pc[t] = "tp_lock"
  /\ m_mut' = t
  /\ pc' = [pc EXCEPT ![t] = "tp_body"]
  /\ UNCHANGED << m_stop_src, asBuilt, m_stop_tok, m_data_cond, m_data_queue, op, arg, seen, cnt, ret, ok, ext_pc,
                  histVars >>

\* lock_guard lk{m_mut};
TpLock(t) ==
  /\ pc[t] = "tp_lock"
  /\ m_mut = NoThread
  /\ m_mut' = t
  /\ pc' = [pc EXCEPT ![t] = "tp_body"]
  /\ UNCHANGED << m_stop_src, asBuilt, m_stop_tok, m_data_cond, m_data_queue, op, arg, seen, cnt, ret, ok, ext_pc,
                  histVars >>

\* (TpBodyBack: a try_pop that takes the newest element)
TpBodyBack(t) ==
  /\ pc[t] = "tp_body"
  /\ IF empty(m_data_queue)
     THEN /\ ret' = [ret EXCEPT ![t] = Absent]
          /\ UNCHANGED << m_data_queue, popped >>
     ELSE /\ ret' = [ret EXCEPT ![t] = Present(m_data_queue[Len(m_data_queue)])]
          /\ m_data_queue' = SubSeq(m_data_queue, 1, Len(m_data_queue) - 1)
          /\ popped' = Append(popped, m_data_queue[Len(m_data_queue)])
  /\ pc' = [pc EXCEPT ![t] = "tp_unlock"]
  /\ UNCHANGED << m_mut, m_stop_src, asBuilt, m_stop_tok, m_data_cond, op, arg, seen, cnt, ok, ext_pc,
                  nextTag, pushed, stopReturned, calledAfter, headAtCall, parkedAtStop >>

\* if (m_data_queue.empty()) return {}; val = front(); pop_front();
TpBody(t) ==
  /\ pc[t] = "tp_body"
  /\ IF empty(m_data_queue)
     THEN /\ ret' = [ret EXCEPT ![t] = Absent]
          /\ UNCHANGED << m_data_queue, popped >>
     ELSE /\ ret' = [ret EXCEPT ![t] = Present(front(m_data_queue))]
          /\ m_data_queue' = pop_front(m_data_queue)
          /\ popped' = Append(popped, front(m_data_queue))
  /\ pc' = [pc EXCEPT ![t] = "tp_unlock"]
  /\ UNCHANGED << m_mut, m_stop_src, asBuilt, m_stop_tok, m_data_cond, op, arg, seen, cnt, ok, ext_pc,
                  nextTag, pushed, stopReturned, calledAfter, headAtCall, parkedAtStop >>

\* return: the lock_guard releases m_mut
TpUnlock(t) == Unlock(t, "tp_unlock")

\* ------------------------------------------------------------- request_stop
\* the threads blocked on an empty queue at the moment stop is requested
ParkedOnEmpty == [t \in Threads |-> t \in m_data_cond /\ empty(m_data_queue)]

\* (RsCheckAnyMode: a request_stop that reaches the stop state behind the
\* token whether or not the queue owns a stop_source)
RsCheckAnyMode(t) ==
  /\ pc[t] = "rs_check"
  /\ IF ~m_stop_tok
     THEN /\ m_stop_tok' = TRUE
          /\ parkedAtStop' = ParkedOnEmpty
          /\ pc' = [pc EXCEPT ![t] = "rs_callbacks"]
          /\ UNCHANGED ok
     ELSE /\ ok' = [ok EXCEPT ![t] = FALSE]
          /\ pc' = [pc EXCEPT ![t] = "return"]
          /\ UNCHANGED << m_stop_tok, parkedAtStop >>
  /\ UNCHANGED << m_mut, m_stop_src, asBuilt, m_data_cond, m_data_queue, op, arg, seen, cnt, ret, ext_pc,
                  nextTag, pushed, popped, stopReturned, calledAfter, headAtCall >>

\* (RsCheckAgain: a stop_source that makes the transition on every request)
RsCheckAgain(t) ==
  /\ pc[t] = "rs_check"
  /\ IF m_stop_src
     THEN /\ m_stop_tok' = TRUE
          /\ parkedAtStop' = ParkedOnEmpty
          /\ pc' = [pc EXCEPT ![t] = "rs_callbacks"]
          /\ UNCHANGED ok
     ELSE /\ ok' = [ok EXCEPT ![t] = FALSE]
          /\ pc' = [pc EXCEPT ![t] = "return"]
          /\ UNCHANGED << m_stop_tok, parkedAtStop >>
  /\ UNCHANGED << m_mut, m_stop_src, asBuilt, m_data_cond, m_data_queue, op, arg, seen, cnt, ret, ext_pc,
                  nextTag, pushed, popped, stopReturned, calledAfter, headAtCall >>

\* (RsCheckToggle: a request_stop that withdraws a request already made)
RsCheckToggle(t) ==
  /\ pc[t] = "rs_check"
  /\ IF m_stop_src /\ ~m_stop_tok
     THEN /\ m_stop_tok' = TRUE
          /\ parkedAtStop' = ParkedOnEmpty
          /\ pc' = [pc EXCEPT ![t] = "rs_callbacks"]
          /\ UNCHANGED ok
     ELSE /\ ok' = [ok EXCEPT ![t] = FALSE]
          /\ pc' = [pc EXCEPT ![t] = "return"]
          /\ m_stop_tok' = FALSE
          /\ UNCHANGED parkedAtStop
  /\ UNCHANGED << m_mut, m_stop_src, asBuilt, m_data_cond, m_data_queue, op, arg, seen, cnt, ret, ext_pc,
                  nextTag, pushed, popped, stopReturned, calledAfter, headAtCall >>

\* if (m_stop_src) return (*m_stop_src).request_stop(); return false;
\* stop_source::request_stop: false if stop was already requested, else the
\* state becomes "requested" and the registered callbacks are run
RsCheck(t) ==
  /\ pc[t] = "rs_check"
  /\ IF m_stop_src /\ ~m_stop_tok
     THEN /\ m_stop_tok' = TRUE
          /\ parkedAtStop' = ParkedOnEmpty
          /\ pc' = [pc EXCEPT ![t] = "rs_callbacks"]
          /\ UNCHANGED ok
     ELSE /\ ok' = [ok EXCEPT ![t] = FALSE]
          /\ pc' = [pc EXCEPT ![t] = "return"]
          /\ UNCHANGED << m_stop_tok, parkedAtStop >>
  /\ UNCHANGED << m_mut, m_stop_src, asBuilt, m_data_cond, m_data_queue, op, arg, seen, cnt, ret, ext_pc,
                  nextTag, pushed, popped, stopReturned, calledAfter, headAtCall >>

\* the stop callback of every thread inside the interruptible wait: notify_all;
\* then stop_source::request_stop returns true
RsCallbacks(t) ==
  /\ pc[t] = "rs_callbacks"
  /\ m_data_cond' = m_data_cond \ NotifyAllChoice(m_data_cond)
  /\ pc' = [Release(NotifyAllChoice(m_data_cond)) EXCEPT ![t] = "return"]
  /\ ok' = [ok EXCEPT ![t] = TRUE]
  /\ UNCHANGED << m_mut, m_stop_src, asBuilt, m_stop_tok, m_data_queue, op, arg, seen, cnt, ret, ext_pc,
                  histVars >>

\* -------------------------------------------------------------------- apply
\* (ApNoLock: an apply that starts its traversal without taking m_mut)
ApNoLock(t) ==
  /\ pc[t] = "ap_lock"
  /\ pc' = [pc EXCEPT ![t] = "ap_visit"]
  /\ UNCHANGED << queueVars, op, arg, seen, cnt, ret, ok, ext_pc, histVars >>

\* lock_guard lk{m_mut};
ApLock(t) ==
  /\ pc[t] = "ap_lock"
  /\ m_mut = NoThread
  /\ m_mut' = t
  /\ pc' = [pc EXCEPT ![t] = "ap_visit"]
  /\ UNCHANGED << m_stop_src, asBuilt, m_stop_tok, m_data_cond, m_data_queue, op, arg, seen, cnt,
                  ret, ok, ext_pc, histVars >>

\* for (const T& elem : m_data_queue) { func(elem); }
\* one step per element, from begin() to end(); then the loop is left
ApVisit(t) ==
  /\ pc[t] = "ap_visit"
  /\ IF Len(seen[t]) < size(m_data_queue)
     THEN /\ seen' = [seen EXCEPT ![t] = Append(seen[t], m_data_queue[Len(seen[t]) + 1])]
          /\ UNCHANGED pc
     ELSE /\ pc' = [pc EXCEPT ![t] = "ap_unlock"]
          /\ UNCHANGED seen
  /\ UNCHANGED << queueVars, op, arg, cnt, ret, ok, ext_pc, histVars >>

\* end of the function: the lock_guard releases m_mut
ApUnlock(t) == Unlock(t, "ap_unlock")

\* ------------------------------------------------------------ stop_requested
\* return m_stop_tok.stop_requested();
SrRead(t) ==
  /\ pc[t] = "sr_read"
  /\ ok' = [ok EXCEPT ![t] = stop_requested]
  /\ pc' = [pc EXCEPT ![t] = "return"]
  /\ UNCHANGED << queueVars, op, arg, seen, cnt, ret, ext_pc, histVars >>

\* -------------------------------------------------------------------- empty
\* lock_guard lk{m_mut};
EmLock(t) ==
  /\ pc[t] = "em_lock"
  /\ m_mut = NoThread
  /\ m_mut' = t
  /\ pc' = [pc EXCEPT ![t] = "em_read"]
  /\ UNCHANGED << m_stop_src, asBuilt, m_stop_tok, m_data_cond, m_data_queue, op, arg, seen, cnt,
                  ret, ok, ext_pc, histVars >>

\* return m_data_queue.empty();
EmRead(t) ==
  /\ pc[t] = "em_read"
  /\ ok' = [ok EXCEPT ![t] = empty(m_data_queue)]
  /\ pc' = [pc EXCEPT ![t] = "em_unlock"]
  /\ UNCHANGED << queueVars, op, arg, seen, cnt, ret, ext_pc, histVars >>

EmUnlock(t) == Unlock(t, "em_unlock")

\* --------------------------------------------------------------------- size
\* (SzNoLock: a size() that reads the container without taking m_mut)
SzNoLock(t) ==
  /\ pc[t] = "sz_lock"
  /\ pc' = [pc EXCEPT ![t] = "sz_read"]
  /\ UNCHANGED << queueVars, op, arg, seen, cnt, ret, ok, ext_pc, histVars >>

\* lock_guard lk{m_mut};
SzLock(t) ==
  /\ pc[t] = "sz_lock"
  /\ m_mut = NoThread
  /\ m_mut' = t
  /\ pc' = [pc EXCEPT ![t] = "sz_read"]
  /\ UNCHANGED << m_stop_src, asBuilt, m_stop_tok, m_data_cond, m_data_queue, op, arg, seen, cnt,
                  ret, ok, ext_pc, histVars >>

\* return m_data_queue.size();
SzRead(t) ==
  /\ pc[t] = "sz_read"
  /\ cnt' = [cnt EXCEPT ![t] = size(m_data_queue)]
  /\ pc' = [pc EXCEPT ![t] = "sz_unlock"]
  /\ UNCHANGED << queueVars, op, arg, seen, ret, ok, ext_pc, histVars >>

SzUnlock(t) == Unlock(t, "sz_unlock")

\* ------------------------------------------------- the external stop_source
\* request_stop() on the stop_source whose token the constructor was given
\* (it reaches m_stop_tok only if m_stop_tok was made from the token supplied)
ExtRequestStop ==
  /\ ~m_stop_src
  /\ ext_pc = "idle"
  /\ IF tok_state = "external"
     THEN m_stop_tok' = TRUE /\ parkedAtStop' = ParkedOnEmpty
     ELSE UNCHANGED << m_stop_tok, parkedAtStop >>
  /\ ext_pc' = "callbacks"
  /\ UNCHANGED << m_mut, m_stop_src, asBuilt, m_data_cond, m_data_queue, pc, op, arg, seen, cnt, ret, ok,
                  nextTag, pushed, popped, stopReturned, calledAfter, headAtCall >>

\* the stop callbacks registered on the external stop state, then the return
ExtCallbacks ==
  /\ ext_pc = "callbacks"
  /\ IF tok_state = "external"
     THEN /\ m_data_cond' = m_data_cond \ NotifyAllChoice(m_data_cond)
          /\ pc' = Release(NotifyAllChoice(m_data_cond))
          /\ stopReturned' = TRUE
     ELSE UNCHANGED << m_data_cond, pc, stopReturned >>
  /\ ext_pc' = "done"
  /\ UNCHANGED << m_mut, m_stop_src, asBuilt, m_stop_tok, m_data_queue, op, arg, seen, cnt, ret, ok,
                  nextTag, pushed, popped, calledAfter, headAtCall, parkedAtStop >>

\* ------------------------------------------------------------ specification
\* the steps a thread takes inside a method once it has entered it
StepAny(t) ==
  \/ PushCheck(t) \/ PushLock(t) \/ PushBack(t) \/ PushNotify(t) \/ PushUnlock(t)
  \/ WapLock(t) \/ WapWait(t) \/ WapRelock(t) \/ WapPop(t) \/ WapUnlock(t)
  \/ TpCheck(t) \/ TpLock(t) \/ TpBody(t) \/ TpUnlock(t)
  \/ RsCheck(t)
  \/ Return(t)

\* with an owned stop_source, request_stop() can also run the stop callbacks
Step(t) == StepAny(t) \/ RsCallbacks(t)

\* a thread enters a method
Enter(t) == CallPush(t) \/ CallWaitAndPop(t) \/ CallTryPop(t) \/ CallRequestStop(t)

\* a queue that owns its stop_source
Next ==
  \E t \in Threads : Enter(t) \/ Step(t) \/ SpuriousWake(t)

Spec == Init /\ [][Next]_vars

\* Fair scheduling: a thread inside a method that can take a step again and
\* again (in particular one that finds m_mut free again and again) takes it;
\* nothing obliges a thread to call a method, and no wake-up is owed without
\* a notification.
NextFair ==
  \E t \in Threads :
    \/ CallPushFair(t) \/ CallWaitAndPop(t) \/ CallTryPop(t) \/ CallRequestStop(t)
    \/ Step(t)
    \/ SpuriousWake(t)

FairSpec ==
  /\ Init /\ [][NextFair]_vars
  /\ \A t \in Threads : SF_vars(Step(t))

\* a queue constructed with an external token: its stop_source lives outside
NextExt ==
  \/ \E t \in Threads : Enter(t) \/ StepAny(t) \/ SpuriousWake(t)
  \/ ExtRequestStop
  \/ ExtCallbacks

ExtSpec == InitExt /\ [][NextExt]_vars

\* a queue over a fixed-capacity ring view (owned stop_source)
NextRing ==
  \E t \in SmallThreads :
    \/ CallPushRing(t) \/ CallWaitAndPop(t) \/ CallTryPop(t) \/ CallRequestStop(t)
    \/ Step(t)
    \/ SpuriousWake(t)

RingSpec == InitRing /\ [][NextRing]_vars

\* a queue built by any constructor, with the owner of the external source
NextCtor ==
  \/ \E t \in SmallThreads :
       \/ CallPushFair(t) \/ CallWaitAndPop(t) \/ CallTryPop(t) \/ CallRequestStop(t)
       \/ Step(t)
       \/ SpuriousWake(t)
  \/ ExtRequestStop
  \/ ExtCallbacks

CtorSpec == InitCtor /\ [][NextCtor]_vars

\* the steps of apply and of the queries
QueryStep(t) ==
  \/ ApLock(t) \/ ApVisit(t) \/ ApUnlock(t)
  \/ SrRead(t)
  \/ EmLock(t) \/ EmRead(t) \/ EmUnlock(t)
  \/ SzLock(t) \/ SzRead(t) \/ SzUnlock(t)

\* a thread enters apply or a query
EnterQuery(t) == CallApply(t) \/ CallStopRequested(t) \/ CallEmpty(t) \/ CallSize(t)

\* the whole interface: modifying methods, apply and the queries
NextQuery ==
  \E t \in SmallThreads :
    \/ Enter(t) \/ EnterQuery(t)
    \/ Step(t) \/ QueryStep(t)
    \/ SpuriousWake(t)

QuerySpec == Init /\ [][NextQuery]_vars

\* the whole interface under fair scheduling: two threads call any method,
\* the others only wait_and_pop (consumers that may all be blocked)
NextQueryFair ==
  \/ \E t \in SmallThreads :
       \/ CallPushFair(t) \/ CallWaitAndPop(t) \/ CallTryPop(t) \/ CallRequestStop(t)
       \/ EnterQuery(t)
       \/ Step(t) \/ QueryStep(t)
       \/ SpuriousWake(t)
  \/ \E t \in Threads \ SmallThreads :
       CallWaitAndPop(t) \/ Step(t) \/ SpuriousWake(t)

\* as in FairSpec: a thread inside a method that can take a step again and
\* again takes it (fair lock scheduling)
FairQuerySpec ==
  /\ Init /\ [][NextQueryFair]_vars
  /\ \A t \in Threads : SF_vars(Step(t) \/ QueryStep(t))

\* the threaded test with a stop request at any moment: the writer pushes, every
\* reader loops on wait_and_pop until it gets an absent result, and a reader
\* may call request_stop() between two pops
WriterStep(t) ==
  \/ PushCheck(t) \/ PushLock(t) \/ PushBack(t) \/ PushNotify(t) \/ PushUnlock(t)
  \/ Return(t)

ReaderStep(t) ==
  \/ WapLock(t) \/ WapWait(t) \/ WapRelock(t) \/ WapPop(t) \/ ReadFuncReturn(t)
  \/ RsCheck(t) \/ RsCallbacks(t)
  \/ Return(t)

NextLoop ==
  \/ \E t \in Writers : CallPush(t) \/ WriterStep(t)
  \/ \E t \in Readers :
       CallWaitAndPop(t) \/ CallRequestStop(t) \/ ReaderStep(t) \/ SpuriousWake(t)

\* fair scheduling as in FairSpec, and a reader that has not left its loop goes
\* round it: however often it calls request_stop, it calls wait_and_pop again
LoopSpec ==
  /\ Init /\ [][NextLoop]_vars
  /\ \A t \in Writers : SF_vars(WriterStep(t))
  /\ \A t \in Readers : SF_vars(ReaderStep(t)) /\ SF_vars(CallWaitAndPop(t))

\* two producers, each pushing its own values in order, and two consumers (one
\* of them also a producer) that pop and may request stop
NextOrder ==
  \/ \E t \in SmallThreads : CallPushOwn(t)
  \/ \E t \in Readers : CallWaitAndPop(t) \/ CallTryPop(t) \/ CallRequestStop(t)
  \/ \E t \in Threads : Step(t) \/ SpuriousWake(t)

OrderSpec == Init /\ [][NextOrder]_vars

TypeOK ==
  /\ m_mut \in Threads \cup {NoThread}
  /\ m_stop_src \in BOOLEAN
  /\ m_stop_tok \in BOOLEAN
  /\ m_data_cond \subseteq Threads
  /\ m_data_queue \in Seq(0..(MaxPushRing + 2))
  /\ capacity \in {Growable, RingCap}
  /\ ctor \in CtorForms
  /\ tok_state \in {"owned", "external", "indeterminate"}
  /\ \A t \in Threads : (t \in m_data_cond) <=> (pc[t] = "wap_parked")

\* the values of a sequence
Range(s) == { s[i] : i \in 1..Len(s) }

\* -------------------------------------------------------------------- C1
\* C1: FIFO order.  The values appended so far are exactly the values removed
\* so far, in the order of their removal, followed by the values still held, in
\* the order the queue holds them; and a pop that returns a value returns the
\* one it removed.  Hence n pops (try_pop or wait_and_pop) after pushes
\* v1..vn return v1..vn in that order and leave the queue empty.
C1_FifoOrder ==
  /\ pushed = popped \o m_data_queue
  /\ \A t \in Threads :
       (pc[t] \in {"wap_unlock", "tp_unlock"} /\ ret[t] # Absent)
         => ret[t] = Present(popped[Len(popped)])

\* two pushes appended in the reverse order of their calls and both removed in
\* the order of the appends, the second by a wait_and_pop that is returning it
C1_Witness ==
  /\ ~m_stop_tok
  /\ pushed = << 2, 1 >>
  /\ popped = pushed
  /\ empty(m_data_queue)
  /\ \E t \in Threads : pc[t] = "wap_unlock" /\ ret[t] = Present(1)

\* -------------------------------------------------------------------- C2
\* C2: shutdown finality.  On a queue that owns its stop_source, a push,
\* push(T&&) or emplace_push call that starts after a request_stop() has
\* returned true never passes its stop check: it takes no lock, its value is
\* never appended, and it returns false.
C2_ShutdownFinality ==
  \A t \in Threads :
    (m_stop_src /\ op[t] \in PushOps /\ calledAfter[t] = 2)
      => /\ pc[t] \in {"push_check", "return"}
         /\ pc[t] = "return" => ok[t] = FALSE
         /\ arg[t] \notin Range(pushed)
         /\ arg[t] \notin Range(m_data_queue)

\* an emplace_push and a push, both called after request_stop() returned true,
\* are returning false while the queue still holds nothing
C2_Witness ==
  /\ m_stop_src /\ stopReturned
  /\ \E t, u \in Threads :
       /\ op[t] = "emplace_push" /\ op[u] \in {"push", "push_move"}
       /\ calledAfter[t] = 2 /\ calledAfter[u] = 2
       /\ pc[t] = "return" /\ ok[t] = FALSE
       /\ pc[u] = "return" /\ ok[u] = FALSE

\* -------------------------------------------------------------------- C3
\* C3: blocking wake on push.  Under fair scheduling, a thread blocked in
\* wait_and_pop while the queue holds a pushed element is eventually released
\* and returns a value, unless the queue is emptied first (another consumer
\* took the element); so of several blocked consumers one returns it.
C3_BlockingWake ==
  \A t \in Threads :
    (pc[t] = "wap_parked" /\ ~empty(m_data_queue))
      ~> ((pc[t] = "wap_unlock" /\ ret[t] # Absent) \/ empty(m_data_queue))

\* a push has appended its value and notified; one of two blocked consumers
\* has been released by it and is about to take the lock, the other stays blocked
C3_Witness ==
  \E t, u, w \in Threads :
    /\ ~m_stop_tok
    /\ pc[u] = "push_unlock" /\ m_data_queue = << arg[u] >>
    /\ pc[t] = "wap_relock"
    /\ pc[w] = "wap_parked"

\* -------------------------------------------------------------------- C4
\* C4: stop while empty.  A thread that was blocked in wait_and_pop on an
\* empty queue at the moment stop was requested returns an absent result,
\* whatever the producers do meanwhile.
C4_StopWhileEmpty ==
  \A t \in Threads :
    (parkedAtStop[t] /\ pc[t] = "wap_unlock") => ret[t] = Absent

\* -------------------------------------------------------------------- C5
\* C5: no thread blocks forever past a shutdown request.  Under fair
\* scheduling, once stop has been requested every thread inside wait_and_pop
\* (blocked already, or entering later) eventually returns from it.
C5_NoBlockPastStop ==
  \A t \in Threads :
    (m_stop_tok /\ op[t] = "wait_and_pop") ~> (op[t] # "wait_and_pop")

\* stop was requested while a consumer was blocked on the empty queue and
\* another one enters wait_and_pop afterwards; the first is returning absent
C5_Witness ==
  \E t, u \in Threads :
    /\ m_stop_tok
    /\ parkedAtStop[t] /\ pc[t] = "wap_unlock" /\ ret[t] = Absent
    /\ op[u] = "wait_and_pop" /\ calledAfter[u] = 2 /\ pc[u] = "wap_lock"

C7_AbsentAfterStop ==
  \A t \in Threads :
    (op[t] = "wait_and_pop" /\ calledAfter[t] >= 1 /\ pc[t] = "wap_unlock")
      => ret[t] = Absent

C9_FlushAfterStop ==
  [][\A t \in Threads :
       (/\ op[t] = "try_pop" /\ calledAfter[t] >= 1
        /\ ~empty(m_data_queue)
        /\ pc[t] \notin {"return", "tp_unlock"}
        /\ pc'[t] \in {"return", "tp_unlock"})
         => /\ ret'[t] = Present(front(m_data_queue))
            /\ m_data_queue' = pop_front(m_data_queue)]_vars

C12_PushFalseIffStopped ==
  /\ [](\A t \in Threads :
          op[t] \in PushOps
            => /\ pc[t] = "return" => (ok[t] = FALSE /\ m_stop_tok /\ arg[t] \notin Range(pushed))
               /\ pc[t] = "push_unlock" => (ok[t] = TRUE /\ arg[t] \in Range(pushed)))
  /\ [][\A t \in Threads :
          (pc[t] = "push_check" /\ pc'[t] # pc[t])
            => /\ (pc'[t] = "return" /\ ok'[t] = FALSE) <=> m_stop_tok
               /\ (pc'[t] = "push_lock") <=> ~m_stop_tok
               /\ m_data_queue' = m_data_queue]_vars
  /\ [][\A t \in Threads :
          (pc[t] = "push_back" /\ pc'[t] # pc[t])
            => m_data_queue' = m_data_queue \o << arg[t] >>]_vars

\* an emplace_push on a queue that is not stopped has put its value behind the
\* element already held and is returning true
C12_Witness ==
  \E t \in Threads :
    /\ ~m_stop_tok
    /\ op[t] = "emplace_push" /\ pc[t] = "push_unlock" /\ ok[t] = TRUE
    /\ Len(m_data_queue) = 2 /\ m_data_queue[2] = arg[t]

\* ------------------------------------------------------------------- C13
\* the request_stop() calls that make (or have made) the transition and are
\* about to return true
Winners ==
  { t \in Threads : op[t] = "request_stop"
                      /\ (pc[t] = "rs_callbacks" \/ (pc[t] = "return" /\ ok[t])) }

\* C13: idempotent stop.  On a queue that owns its stop_source, of all the
\* request_stop() calls, sequential or concurrent, at most one makes the
\* transition and returns true, and once one has returned true no other one
\* does; every other call returns false; stop is requested exactly when some
\* call has made the transition, and stop_requested() is true once any
\* request_stop() call (returning true or false) has come to its result.
C13_IdempotentStop ==
  /\ Cardinality(Winners) + (IF stopReturned THEN 1 ELSE 0) <= 1
  /\ stop_requested <=> (Winners # {} \/ stopReturned)
  /\ \A t \in Threads :
       (op[t] = "request_stop" /\ pc[t] = "return") => stop_requested

\* a request_stop() is returning false while the concurrent call that made the
\* transition has not yet returned
C13_Witness ==
  \E t, u \in Threads :
    /\ op[t] = "request_stop" /\ pc[t] = "rs_callbacks"
    /\ op[u] = "request_stop" /\ pc[u] = "return" /\ ok[u] = FALSE

\* ------------------------------------------------------------------- C14
\* C14: external-token mode.  On a queue constructed with an external stop
\* token, request_stop() goes straight to returning false, and no step of it
\* changes the stop flag, the set of blocked consumers, the elements, or the
\* position of any other thread (nobody is woken, pushes go on as before).
C14_ExternalNoOp ==
  /\ [](\A t \in Threads :
          (~m_stop_src /\ op[t] = "request_stop")
            => /\ pc[t] \in {"rs_check", "return"}
               /\ pc[t] = "return" => ok[t] = FALSE)
  /\ [][\A t \in Threads :
          (~m_stop_src /\ op[t] = "request_stop" /\ pc'[t] # pc[t])
            => /\ m_stop_tok' = m_stop_tok
               /\ m_data_cond' = m_data_cond
               /\ m_data_queue' = m_data_queue
               /\ \A u \in Threads \ {t} : pc'[u] = pc[u]]_vars

\* on a queue with an external token that is not stopped, a request_stop() is
\* returning false while a consumer stays blocked and a push is past its stop
\* check
C14_Witness ==
  \E t, u, w \in Threads :
    /\ ~m_stop_src /\ ~m_stop_tok /\ ext_pc = "idle"
    /\ op[t] = "request_stop" /\ pc[t] = "return" /\ ok[t] = FALSE
    /\ pc[w] = "wap_parked"
    /\ op[u] \in PushOps /\ pc[u] = "push_lock"

\* ------------------------------------------------------------------- C15
\* C15: external shutdown.  When the external stop_source requests stop, the
\* queue behaves as after an internal request_stop: stop_requested() is true,
\* every consumer that was blocked in wait_and_pop on an empty queue is
\* released and returns absent, and pushes called afterwards return false.
C15_ExternalShutdown ==
  /\ [](ext_pc # "idle" => stop_requested)
  /\ [](ext_pc = "done" => \A t \in Threads : pc[t] # "wap_parked")
  /\ [](\A t \in Threads :
          (parkedAtStop[t] /\ pc[t] = "wap_unlock") => ret[t] = Absent)
  /\ [](\A t \in Threads :
          (op[t] \in PushOps /\ calledAfter[t] = 2)
            => /\ pc[t] \in {"push_check", "return"}
               /\ pc[t] = "return" => ok[t] = FALSE)

\* ------------------------------------------------------------------- C16
\* no push is between its stop check and its append
NoPushInFlight == \A t \in Threads : pc[t] \notin {"push_lock", "push_back"}

\* C16: exactly-once delivery under concurrency (growable container).  No
\* value is removed twice, every value removed or being returned by a pop was
\* pushed, and once stop is requested with every pushed element consumed and
\* no push under way, the values popped are exactly the values pushed, the
\* queue is empty, and this stays so.
C16_ExactlyOnce ==
  /\ [](\A i, j \in 1..Len(popped) : i # j => popped[i] # popped[j])
  /\ [](Range(popped) \subseteq Range(pushed))
  /\ [](\A t \in Threads :
          (pc[t] \in {"wap_unlock", "tp_unlock"} /\ ret[t] # Absent)
            => \E v \in Range(pushed) : ret[t] = Present(v))
  /\ []((m_stop_tok /\ Len(m_data_queue) = 0 /\ NoPushInFlight)
          => Range(popped) = Range(pushed))
  /\ [][(m_stop_tok /\ Len(m_data_queue) = 0 /\ NoPushInFlight)
          => /\ m_data_queue' = m_data_queue
             /\ pushed' = pushed /\ popped' = popped
             /\ NoPushInFlight']_vars

\* two values pushed by different calls have both been consumed, stop was
\* requested afterwards while a consumer was blocked, and that consumer is
\* returning absent from the empty queue
C16_Witness ==
  /\ m_stop_tok /\ NoPushInFlight
  /\ Len(pushed) = 2 /\ Range(popped) = Range(pushed)
  /\ Len(m_data_queue) = 0
  /\ \E t \in Threads : parkedAtStop[t] /\ pc[t] = "wap_unlock" /\ ret[t] = Absent

\* ------------------------------------------------------------------- C17
\* C17 as stated: every push that appends (and so returns true) makes the
\* queue one element longer, for every container form.
C17_SizePlusOne ==
  [][\A t \in Threads :
       (pc[t] = "push_back" /\ pc'[t] # pc[t])
         => Len(m_data_queue') = Len(m_data_queue) + 1]_vars

\* C17 (amended): every push that appends (and so returns true) makes the
\* queue one element longer, except on a fixed-capacity ring that is full,
\* where the size stays at the capacity.
C17_SizePlusOneUnlessFull ==
  [][\A t \in Threads :
       (pc[t] = "push_back" /\ pc'[t] # pc[t])
         => Len(m_data_queue') = IF capacity # Growable /\ Len(m_data_queue) = capacity
                                 THEN capacity
                                 ELSE Len(m_data_queue) + 1]_vars

\* a third push on a ring of capacity two is returning true and the size is
\* still two
C17_Witness ==
  \E t \in Threads :
    /\ capacity = RingCap
    /\ pc[t] = "push_unlock" /\ ok[t] = TRUE
    /\ Len(pushed) = RingCap + 1 /\ Len(popped) = 0
    /\ Len(m_data_queue) = RingCap

\* ------------------------------------------------------------------- C18
\* C18: every pop (wait_and_pop or try_pop) that returns a present value
\* removes exactly the head element: the value returned is the old head, the
\* queue it leaves is the old queue without its head (one element shorter, the
\* others in their order), and the caller still holds the lock.
C18_PopRemovesHead ==
  /\ [][\A t \in Threads :
          (pc[t] \in {"wap_pop", "tp_body"} /\ pc'[t] # pc[t] /\ ret'[t] # Absent)
            => /\ ret'[t] = Present(Head(m_data_queue))
               /\ m_data_queue = << Head(m_data_queue) >> \o m_data_queue'
               /\ Len(m_data_queue') = Len(m_data_queue) - 1
               /\ m_mut' = t]_vars
  /\ [](\A t \in Threads :
          (pc[t] \in {"wap_unlock", "tp_unlock"} /\ ret[t] # Absent) => m_mut = t)

\* a wait_and_pop on a queue of two elements is returning the first; the
\* second stays
C18_Witness ==
  \E t \in Threads :
    /\ op[t] = "wait_and_pop" /\ pc[t] = "wap_unlock"
    /\ Len(pushed) = 2
    /\ ret[t] = Present(pushed[1])
    /\ m_data_queue = << pushed[2] >>

\* ------------------------------------------------------------------- C19
\* the position of a value in the order of the appends
Pos(v) == CHOOSE k \in 1..Len(pushed) : pushed[k] = v

\* the last n values appended
LastPushed(n) == SubSeq(pushed, Len(pushed) - n + 1, Len(pushed))

\* C19: fixed-capacity ring container.  The queue starts empty; its size never
\* exceeds the capacity; a push into a full queue overwrites the oldest element
\* and returns true; the queue always holds the most recently pushed values in
\* push order (as long as nothing was popped: the last min(capacity, pushes)
\* of them), and pops return values in push order.
C19_RingOverwrite ==
  /\ [](Len(pushed) = 0 => Len(m_data_queue) = 0)
  /\ [](Len(m_data_queue) <= capacity)
  /\ [](m_data_queue = LastPushed(Len(m_data_queue)))
  /\ [](Len(popped) = 0
          => Len(m_data_queue) = IF Len(pushed) < capacity THEN Len(pushed) ELSE capacity)
  /\ [](\A i, j \in 1..Len(popped) : i < j => Pos(popped[i]) < Pos(popped[j]))
  /\ [](\A t \in Threads : pc[t] = "push_unlock" => ok[t] = TRUE)
  /\ [][\A t \in Threads :
          (pc[t] = "push_back" /\ pc'[t] # pc[t] /\ Len(m_data_queue) = capacity)
            => /\ m_data_queue' = Tail(m_data_queue) \o << arg[t] >>
               /\ pc'[t] = "push_notify"]_vars

\* three values were pushed into a ring of capacity two before any pop; the
\* pops have returned the second and the third, and the queue is empty
C19_Witness ==
  /\ capacity = RingCap
  /\ Len(pushed) = RingCap + 1
  /\ popped = SubSeq(pushed, 2, RingCap + 1)
  /\ Len(m_data_queue) = 0

\* ------------------------------------------------------------------- C20
\* C20: every constructor that takes a stop token leaves the queue without a
\* stop_source of its own and with the supplied token: stop_requested() is
\* true exactly when the external source has requested stop, and request_stop()
\* returns false; every constructor without a token leaves the queue with its
\* own stop_source and stop_requested() false; the mode never changes.
C20_CtorModes ==
  /\ (~TakesToken(ctor) => ~stop_requested)
  /\ [](TakesToken(ctor)
          => /\ ~m_stop_src
             /\ stop_requested <=> (ext_pc # "idle")
             /\ \A t \in Threads :
                  (op[t] = "request_stop" /\ pc[t] = "return") => ok[t] = FALSE)
  /\ [](~TakesToken(ctor) => m_stop_src)
  /\ [][m_stop_src' = m_stop_src]_vars

\* ------------------------------------------------------------------- C21
\* C21: construction postconditions.  A default-constructed queue is empty,
\* has size 0 and is not stopped; a queue constructed from a pre-built
\* container holds exactly that container's elements (so its size and
\* emptiness), and the pops return them in the container's front-to-back
\* order, before anything pushed later.
C21_ConstructionPost ==
  /\ (ctor = "default" => (Len(m_data_queue) = 0 /\ ~stop_requested))
  /\ (ctor \in {"container", "token_container"}
        => (m_data_queue \in PrebuiltContainers /\ m_data_queue = pushed))
  /\ [](pushed = popped \o m_data_queue)

\* the two elements of a pre-built container have been popped, front first
C21_Witness ==
  /\ ctor = "container"
  /\ Len(popped) = 2
  /\ popped \in PrebuiltContainers

\* ------------------------------------------------------------------- C22
\* C22: apply holds the lock for the whole traversal and invokes the visitor
\* exactly once per element, head to tail, on the elements present when the
\* lock was acquired: during the traversal the elements seen so far are the
\* first elements of the queue in their order, at its end they are the whole
\* queue, and from the lock to the return no step changes the queue.
C22_ApplyTraversal ==
  /\ [](\A t \in Threads : pc[t] \in {"ap_visit", "ap_unlock"} => m_mut = t)
  /\ [](\A t \in Threads :
          pc[t] = "ap_visit"
            => /\ Len(seen[t]) <= Len(m_data_queue)
               /\ seen[t] = SubSeq(m_data_queue, 1, Len(seen[t])))
  /\ [](\A t \in Threads : pc[t] = "ap_unlock" => seen[t] = m_data_queue)
  /\ [][(\E t \in Threads : pc[t] \in {"ap_visit", "ap_unlock"})
          => m_data_queue' = m_data_queue]_vars

\* an apply has visited both elements of the queue and still holds the lock,
\* while a pop of the other thread waits for it
C22_Witness ==
  \E t, u \in Threads :
    /\ pc[t] = "ap_unlock" /\ Len(seen[t]) = 2
    /\ seen[t] = pushed
    /\ pc[u] \in {"tp_lock", "wap_lock"}

\* ------------------------------------------------------------------- C23
\* the operations that take no part in the wait on the condition variable
NonBlockingOps ==
  PushOps \cup {"try_pop", "request_stop", "stop_requested", "empty", "size", "apply"}

\* C23: wait_and_pop is the only operation that can block indefinitely.
\* Under fair scheduling every call of push, emplace_push, try_pop,
\* request_stop, stop_requested, empty, size and apply eventually returns,
\* however many consumers are blocked in wait_and_pop.
C23_OnlyWaitAndPopBlocks ==
  \A t \in Threads : (op[t] \in NonBlockingOps) ~> (op[t] = "none")

\* two consumers are blocked in wait_and_pop on the empty queue while a size()
\* call of the third thread holds the lock
C23_Witness ==
  \E t, u, w \in Threads :
    /\ t # u
    /\ pc[t] = "wap_parked" /\ pc[u] = "wap_parked"
    /\ op[w] = "size" /\ pc[w] = "sz_read"

ObservedStop(u) ==
  \/ pc[u] = "return" /\ op[u] \in PushOps /\ ~ok[u]
  \/ pc[u] = "return" /\ op[u] = "try_pop"
  \/ pc[u] = "wap_unlock" /\ ret[u] = Absent
  \/ pc[u] = "return" /\ op[u] = "stop_requested" /\ ok[u]

\* a push that has passed its stop check and has not appended yet
PushPastCheck(t) == pc[t] \in {"push_lock", "push_back"}

\* C25 as stated: once the stop request has been observed by any operation of
\* any thread, no push appends an element from that point on; in particular
\* no element is appended while an operation that has observed the request is
\* returning its result.
C25_NoAppendOnceObserved ==
  [][(\E u \in Threads : ObservedStop(u))
       => pushed' = pushed]_vars

\* C25, amended: a push that is called once stop is requested never appends:
\* it stops at its check and returns false.  Hence once the stop request has
\* been observed by any operation, the only pushes that still append are those
\* that had passed their stop check before stop was requested, and when there
\* is none the queue receives no element any more.
C25_NoAppendBySubsequentPush ==
  /\ [](\A t \in Threads :
          (op[t] \in PushOps /\ calledAfter[t] >= 1)
            => /\ pc[t] \in {"push_check", "return"}
               /\ arg[t] \notin Range(pushed))
  /\ [](\A t \in Threads : (PushPastCheck(t) /\ m_stop_tok) => calledAfter[t] = 0)
  /\ \A n \in 0..MaxPush :
       [](( /\ \E u \in Threads : ObservedStop(u)
            /\ \A t \in Threads : ~PushPastCheck(t)
            /\ Len(pushed) = n ) => [](Len(pushed) = n))

\* stop_requested() returns true while a push called after the stop request
\* is returning false, its value not appended
C25_Witness ==
  \E u, t \in Threads :
    /\ pc[u] = "return" /\ op[u] = "stop_requested" /\ ok[u]
    /\ pc[t] = "return" /\ op[t] \in PushOps /\ calledAfter[t] >= 1
    /\ arg[t] \notin Range(pushed)

\* ------------------------------------------------------------------- C26
\* the positions between the acquisition of m_mut and its release: all the
\* statements that read or change m_data_queue
UnderLock ==
  { "push_back", "push_notify", "push_unlock",
    "wap_wait", "wap_rewait", "wap_pop", "wap_unlock",
    "tp_body", "tp_unlock",
    "ap_visit", "ap_unlock", "em_read", "em_unlock", "sz_read", "sz_unlock" }

\* the positions at which a thread reads the stop flag without the lock
FlagReads == { "push_check", "tp_check", "sr_read", "rs_check" }

\* C26: lock discipline.  A thread is at a statement that reads or changes the
\* element store (append, head read, head removal, empty/size query, apply
\* traversal) exactly when it owns m_mut, so at most one thread is there at a
\* time; every change of the store is a step of the owner of m_mut; and a step
\* taken without m_mut leaves the store alone and, at a stop check, depends on
\* the stop flag only.
C26_LockDiscipline ==
  /\ [](\A t \in Threads : (pc[t] \in UnderLock) <=> (m_mut = t))
  /\ [](\A t, u \in Threads : (pc[t] \in UnderLock /\ pc[u] \in UnderLock) => t = u)
  /\ [][m_data_queue' # m_data_queue
          => /\ m_mut \in Threads
             /\ m_mut' = m_mut
             /\ pc[m_mut] \in {"push_back", "wap_pop", "tp_body"}
             /\ pc'[m_mut] # pc[m_mut]]_vars
  /\ [][\A t \in Threads :
          (pc[t] \in FlagReads /\ pc'[t] # pc[t])
            => /\ m_mut # t
               /\ UNCHANGED << m_mut, m_data_queue >>
               /\ pc[t] = "push_check" => pc'[t] = IF m_stop_tok THEN "return" ELSE "push_lock"
               /\ pc[t] = "tp_check" => pc'[t] = IF m_stop_tok THEN "return" ELSE "tp_lock"
               /\ pc[t] = "sr_read" => ok'[t] = m_stop_tok]_vars

\* one thread is about to remove the head of a non-empty queue, owning m_mut,
\* while the other waits for m_mut in size()
C26_Witness ==
  \E t, u \in Threads :
    /\ pc[t] = "tp_body" /\ m_mut = t /\ Len(m_data_queue) > 0
    /\ pc[u] = "sz_lock"

\* ------------------------------------------------------------------- C27
\* C27: wake-one policy.  The notification of a successful push releases
\* exactly one of the threads blocked in wait_and_pop when there is one, and
\* none otherwise: the released thread goes on to re-acquire the lock, every
\* other blocked thread stays blocked, and no thread becomes blocked.
C27_WakeOne ==
  [][\A t \in Threads :
       (pc[t] = "push_notify" /\ pc'[t] # pc[t])
         => /\ m_data_cond' \subseteq m_data_cond
            /\ Cardinality(m_data_cond \ m_data_cond') = (IF m_data_cond = {} THEN 0 ELSE 1)
            /\ \A w \in m_data_cond \ m_data_cond' : pc'[w] = "wap_relock"
            /\ \A w \in m_data_cond' : pc'[w] = "wap_parked"
            /\ ok'[t]]_vars

\* a push has notified with two threads blocked: the queue holds its element,
\* one thread is released and the other is still blocked
C27_Witness ==
  \E t, w, x \in Threads :
    /\ pc[t] = "push_unlock" /\ ok[t] /\ Len(m_data_queue) = 1
    /\ pc[w] = "wap_relock"
    /\ pc[x] = "wap_parked" /\ m_data_cond = {x}

\* ------------------------------------------------------------------- C28
\* C28 as stated: in a successful push the wake-up is issued after the lock
\* has been released (release lock, then wake one blocked consumer).
C28_WakeAfterRelease ==
  [][\A t \in Threads :
       (pc[t] = "push_notify" /\ pc'[t] # pc[t]) => m_mut # t]_vars

\* C28, amended: a successful push performs its steps in the order: pre-check
\* of the stop flag, acquisition of the lock, append at the tail, wake-up of
\* one blocked consumer, release of the lock, return of true.  The wake-up is
\* issued while the lock is still held; the lock is released on return.
C28_PushStepOrder ==
  [][\A t \in Threads :
       (op[t] \in PushOps /\ pc'[t] # pc[t])
         => \/ /\ pc[t] = "push_check" /\ ~m_stop_tok
               /\ pc'[t] = "push_lock"
               /\ UNCHANGED << m_mut, m_data_queue, m_data_cond >>
            \/ /\ pc[t] = "push_check" /\ m_stop_tok
               /\ pc'[t] = "return"
            \/ /\ pc[t] = "push_lock" /\ m_mut = NoThread /\ m_mut' = t
               /\ pc'[t] = "push_back"
               /\ UNCHANGED << m_data_queue, m_data_cond >>
            \/ /\ pc[t] = "push_back" /\ m_mut = t /\ m_mut' = t
               /\ m_data_queue' = Append(m_data_queue, arg[t])
               /\ pc'[t] = "push_notify"
               /\ UNCHANGED m_data_cond
            \/ /\ pc[t] = "push_notify" /\ m_mut = t /\ m_mut' = t
               /\ Cardinality(m_data_cond \ m_data_cond') <= 1
               /\ pc'[t] = "push_unlock" /\ ok'[t]
               /\ UNCHANGED m_data_queue
            \/ /\ pc[t] = "push_unlock" /\ m_mut = t /\ m_mut' = NoThread
               /\ ok[t]
               /\ pc'[t] = "idle"
               /\ UNCHANGED << m_data_queue, m_data_cond >>
            \/ /\ pc[t] = "return" /\ ~ok[t]
               /\ pc'[t] = "idle"]_vars

\* a push has appended and notified and still owns the lock; the consumer it
\* released has to wait for the lock
C28_Witness ==
  \E t, w \in Threads :
    /\ pc[t] = "push_unlock" /\ m_mut = t /\ ok[t]
    /\ Len(m_data_queue) > 0 /\ m_data_queue[Len(m_data_queue)] = arg[t]
    /\ pc[w] = "wap_relock" /\ m_data_cond = {}

\* ------------------------------------------------------------------- C29
\* C29: a push, push(T&&) or emplace_push whose stop check reads the flag as
\* requested returns false at once: the step takes no lock, leaves the element
\* store and the blocked threads as they are and moves no other thread; the
\* call then returns to its caller without going back to its stop check or on to
\* the lock, and its value is never appended.
C29_FailedPushFrame ==
  /\ [][\A t \in Threads :
          (op[t] \in PushOps /\ pc[t] = "push_check" /\ m_stop_tok /\ pc'[t] # pc[t])
            => /\ pc'[t] = "return" /\ ~ok'[t]
               /\ UNCHANGED << m_mut, m_data_queue, m_data_cond, pushed >>
               /\ \A u \in Threads \ {t} : pc'[u] = pc[u]]_vars
  /\ [][\A t \in Threads :
          (op[t] \in PushOps /\ pc[t] = "return" /\ pc'[t] # pc[t])
            => /\ pc'[t] = "idle" /\ op'[t] = "none"
               /\ UNCHANGED << m_mut, m_data_queue, m_data_cond, pushed >>]_vars
  /\ [](\A t \in Threads :
          (op[t] \in PushOps /\ pc[t] = "return")
            => /\ ~ok[t] /\ m_mut # t
               /\ arg[t] \notin Range(pushed))

\* a push is returning false while a consumer is still blocked (the stop
\* request has set the flag and not yet notified) and the queue is empty
C29_Witness ==
  \E t, w \in Threads :
    /\ pc[t] = "return" /\ op[t] \in PushOps /\ ~ok[t]
    /\ pc[w] = "wap_parked" /\ m_data_cond = {w}
    /\ m_mut = NoThread /\ Len(m_data_queue) = 0

\* ------------------------------------------------------------------- C30
\* no thread is running inside an operation or has a wake-up pending: every
\* thread is outside the queue or blocked in wait_and_pop
Quiescent == \A t \in Threads : pc[t] \in {"idle", "wap_parked"}

\* C30: no lost wake-up.  Whenever no thread is running inside an operation or
\* has a wake-up pending and some thread is blocked in wait_and_pop, the queue
\* is empty and stop has not been requested.
C30_NoLostWakeup ==
  (Quiescent /\ \E t \in Threads : pc[t] = "wap_parked")
    => (Len(m_data_queue) = 0 /\ ~m_stop_tok)

\* two pushed values have both been popped, and two consumers are blocked
\* again on the empty queue with nothing else going on
C30_Witness ==
  /\ Quiescent
  /\ Cardinality({ t \in Threads : pc[t] = "wap_parked" }) = 2
  /\ Len(popped) = 2 /\ pushed = popped

\* ------------------------------------------------------------------- C31
\* the position of a value in a sequence that holds it
IndexIn(sq, v) == CHOOSE i \in 1..Len(sq) : sq[i] = v

\* a was pushed before b by the same producer
SameProducerInOrder(a, b) == Producer(a) = Producer(b) /\ a < b

\* C31: per-producer order under concurrency (growable container).  When one
\* producer pushes a and later b while other producers and the consumers run,
\* b is appended only after a, and whenever b has been removed, a has been
\* removed before it, whichever threads removed them.
C31_PerProducerOrder ==
  \A a, b \in 1..(NumThreadsSmall * MaxPushOwn) :
    SameProducerInOrder(a, b)
      => /\ (b \in Range(pushed))
              => (a \in Range(pushed) /\ IndexIn(pushed, a) < IndexIn(pushed, b))
         /\ (b \in Range(popped))
              => (a \in Range(popped) /\ IndexIn(popped, a) < IndexIn(popped, b))
         /\ (b \in Range(m_data_queue) /\ a \in Range(m_data_queue))
              => IndexIn(m_data_queue, a) < IndexIn(m_data_queue, b)

\* both values of one producer have been removed, a value of the other
\* producer between them, and the second is being returned by a pop
C31_Witness ==
  /\ Len(popped) = 3
  /\ Producer(popped[1]) = Producer(popped[3])
  /\ Producer(popped[2]) # Producer(popped[1])
  /\ \E t \in Threads : pc[t] \in {"wap_unlock", "tp_unlock"} /\ ret[t] = Present(popped[3])

\* ------------------------------------------------------------------- C32
\* C32: no pop reads or removes from an empty store.  The assertion after the
\* wait of wait_and_pop never fails: a thread that the wait has reported
\* success to owns the lock and finds the queue non-empty; and every removal,
\* by wait_and_pop or try_pop, is made by the owner of the lock from a
\* non-empty queue and takes its head.
C32_NoPopFromEmpty ==
  /\ [](\A t \in Threads : pc[t] # "assert_failed")
  /\ [](\A t \in Threads : pc[t] = "wap_pop" => (m_mut = t /\ Len(m_data_queue) > 0))
  /\ [][popped' # popped
          => /\ Len(m_data_queue) > 0
             /\ m_mut \in Threads /\ pc[m_mut] \in {"wap_pop", "tp_body"}
             /\ popped' = Append(popped, Head(m_data_queue))
             /\ m_data_queue' = Tail(m_data_queue)]_vars
  /\ [][\A t \in Threads :
          (pc[t] = "tp_body" /\ pc'[t] # pc[t] /\ Len(m_data_queue) = 0)
            => (ret'[t] = Absent /\ UNCHANGED << m_data_queue, popped >>)]_vars

\* two consumers were released for one element: the first has removed it and
\* is returning it, the second waits for the lock to evaluate the wait again,
\* and the queue is empty
C32_Witness ==
  \E t, u \in Threads :
    /\ pc[t] = "wap_unlock" /\ ret[t] # Absent
    /\ pc[u] = "wap_relock"
    /\ Len(m_data_queue) = 0 /\ Len(pushed) = 1

\* ------------------------------------------------------------------- C33
\* thread t is returning from stop_requested()
StopQueryReturns(t) == pc[t] = "return" /\ op[t] = "stop_requested"

\* C33: the stop flag is one-way.  No step of any operation takes the flag
\* from requested back to not requested; stop_requested() returns the flag as
\* it reads it; and once a stop_requested() call has returned true, the flag
\* stays requested, so that every stop_requested() call made from then on, by
\* any thread, returns true.
C33_StopOneWay ==
  /\ [][m_stop_tok => m_stop_tok']_vars
  /\ [][\A t \in Threads :
          (pc[t] = "sr_read" /\ pc'[t] # pc[t])
            => (pc'[t] = "return" /\ ok'[t] = m_stop_tok /\ m_stop_tok' = m_stop_tok)]_vars
  /\ [](\A t \in Threads : (StopQueryReturns(t) /\ ok[t]) => m_stop_tok)
  /\ []((\E u \in Threads : StopQueryReturns(u) /\ ok[u])
          => [](/\ m_stop_tok
                /\ \A t \in Threads : (StopQueryReturns(t) /\ calledAfter[t] >= 1) => ok[t]))

\* stop_requested() is returning true from a call made after a request_stop()
\* had returned true, while a second request_stop() is under way
C33_Witness ==
  \E t, u \in Threads :
    /\ StopQueryReturns(t) /\ ok[t] /\ calledAfter[t] = 2
    /\ op[u] = "request_stop" /\ pc[u] = "return" /\ ~ok[u]

\* ------------------------------------------------------------------- C34
\* the positions at which a thread waits to acquire m_mut
LockWaits ==
  { "push_lock", "wap_lock", "wap_relock", "tp_lock", "ap_lock", "em_lock", "sz_lock" }

\* C34: a thread blocked in wait_and_pop, released from it but not yet running,
\* or outside the queue does not own the mutex; a step that returns from an
\* operation leaves the mutex not owned by the returning thread; so when every
\* other thread is blocked in wait_and_pop the mutex is free for the thread
\* that wants it, and under fair scheduling every thread that waits for the
\* mutex obtains it, however many consumers are blocked.
C34_ParkedHoldsNoLock ==
  /\ [](\A t \in Threads :
          pc[t] \in {"wap_parked", "wap_relock", "idle"} => m_mut # t)
  /\ [][\A t \in Threads :
          (pc[t] # "idle" /\ pc'[t] = "idle") => (m_mut' # t /\ m_mut' \in {m_mut, NoThread})]_vars
  /\ [](\A t \in Threads :
          (\A u \in Threads \ {t} : pc[u] \in {"wap_parked", "idle"})
            => m_mut \in {t, NoThread})
  /\ \A t \in Threads : (pc[t] \in LockWaits) ~> (m_mut = t)

\* two consumers are blocked in wait_and_pop while the third thread owns the
\* mutex and is about to append
C34_Witness ==
  \E t, u, w \in Threads :
    /\ t # u
    /\ pc[t] = "wap_parked" /\ pc[u] = "wap_parked"
    /\ pc[w] = "push_back" /\ m_mut = w

\* ------------------------------------------------------------------- C35
\* the queries
QueryOps == { "stop_requested", "empty", "size" }

\* C35: no step of stop_requested(), empty() or size() changes the elements,
\* the stop flag or the set of blocked consumers.  empty() and size() read the
\* container while they own the lock, and until they release it their result
\* is the state of the queue: empty() has true exactly when the queue holds no
\* element, size() has the number of elements held.  stop_requested() takes no
\* lock: it reads the flag whoever owns the mutex and leaves the mutex alone.
C35_QueriesReadOnly ==
  /\ [][\A t \in Threads :
          (op[t] \in QueryOps /\ pc'[t] # pc[t])
            => UNCHANGED << m_data_queue, m_stop_tok, m_stop_src, m_data_cond, pushed, popped >>]_vars
  /\ [](\A t \in Threads :
          pc[t] \in {"em_read", "em_unlock", "sz_read", "sz_unlock"} => m_mut = t)
  /\ [](\A t \in Threads : pc[t] = "em_unlock" => (ok[t] <=> (Len(m_data_queue) = 0)))
  /\ [](\A t \in Threads : pc[t] = "sz_unlock" => cnt[t] = Len(m_data_queue))
  /\ [](\A t \in Threads : op[t] = "stop_requested" => m_mut # t)
  /\ [][\A t \in Threads :
          (pc[t] = "sr_read" /\ pc'[t] # pc[t])
            => (m_mut' = m_mut /\ ok'[t] = m_stop_tok)]_vars

\* stop_requested() is returning true while the other thread owns the mutex
\* inside size(), which has read two elements on a stopped queue
C35_Witness ==
  \E t, u \in Threads :
    /\ pc[t] = "return" /\ op[t] = "stop_requested" /\ ok[t]
    /\ pc[u] = "sz_unlock" /\ m_mut = u /\ cnt[u] = 2

====
